---- MODULE Spec2Model ----
(***************************************************************************)
(* Model of DiscordRSSBot (src/discord_rss_bot.py): the seen-set store     *)
(* (load/save of processed_posts.json), the rss_checker cycle driver with  *)
(* its throttle, novelty filter, cap and per-entry pipeline, and the       *)
(* publisher send_to_discord.                                              *)
(*                                                                         *)
(* Texts are sequences of symbols.  A symbol stands for a character or,    *)
(* for the phrases is_error_message looks for, for a whole phrase, so that *)
(* "indicator in message" is "some symbol of the message is the            *)
(* indicator".  Timestamps are minutes on an integer clock.                *)
(***************************************************************************)
EXTENDS Integers, Sequences, FiniteSets, TLC

VARIABLES
    disk,             \* processed_posts.json: [kind, data]
    processed_posts,  \* self.processed_posts (meaningless while pc = "boot")
    enable_validation,\* self.enable_validation
    pc,               \* position of the process / of rss_checker
    now,              \* the wall clock, in minutes
    current_time,     \* rss_checker's current_time
    i,                \* index into self.rss_urls of the feed being processed
    found,            \* len(new_posts) before the cap, for the current feed
    firstRun,         \* TRUE iff the "first run" branch (line 197) was taken
    new_posts,        \* new_posts after the cap
    j,                \* index into new_posts of the entry being processed
    msg,              \* the message last passed to send_to_discord
    delivered,        \* the parts channel.send delivered in that call, in order
    ev,               \* outcome of the last per-entry pipeline step
    items,            \* feed.items of the current feed (history)
    seenBefore,       \* DOMAIN posts just before the novelty filter (history)
    posted,           \* identities published in the current pass, in order (history)
    skipped,          \* entries of the pass that went through the pipeline unpublished (history)
    newCount,         \* per identity: times it entered a new_posts list in this run (history)
    publishedBefore,  \* identities published in earlier runs of the process (history)
    publishedNow,     \* identities published in this run (history)
    failed,           \* a fetch/validate/transform/publish/save failure occurred in this cycle (history)
    visited,          \* indices of the feeds the loop reached in this cycle (history)
    lastCycle,        \* how the last cycle ended: "none", "completed", "aborted" (history)
    cycles,           \* number of cycles started
    crashes,          \* number of crashes
    saveLog,          \* outcomes of the save_processed_posts calls of the pass over the
                      \* current feed (history)
    dropped,          \* identities skipped without posting in this run: judged invalid,
                      \* flagged by is_error_message, or cut off by the cap (history)
    cyclePosted,      \* identities published in this cycle, in order (history)
    cycleFetched      \* identities of the entries fetched in this cycle, in order (history)

vars == <<disk, processed_posts, enable_validation, pc, now, current_time, i, found,
          firstRun, new_posts, j, msg, delivered, ev, items, seenBefore, posted,
          skipped, newCount, publishedBefore, publishedNow, failed, visited,
          lastCycle, cycles, crashes, saveLog, dropped, cyclePosted, cycleFetched>>

(***************************************************************************)
(* Bounds of the model                                                     *)
(***************************************************************************)
MaxCycles == 2
MaxCrashes == 1
MaxTime == 70
MaxTextLen == 6001

(***************************************************************************)
(* Program constants                                                       *)
(***************************************************************************)
check_interval == 60
max_posts_per_feed == 2
FirstRunLimit == 3
DiscordLimit == 2000
FallbackBodyLen == 500

rss_urls == <<"u1", "u2">>

Min(a, b) == IF a < b THEN a ELSE b

EmptyMap == <<>>

\* Python's s[:n] for n >= 0
Take(s, n) == SubSeq(s, 1, Min(n, Len(s)))

(***************************************************************************)
(* The seen-set store                                                      *)
(***************************************************************************)
EmptyStore == [posts |-> EmptyMap, last_check_times |-> EmptyMap]

Absent == [kind |-> "absent", data |-> EmptyMap]
Garbage == [kind |-> "garbage", data |-> EmptyMap]

\* Python's None, which is no string
PyNone == "<None>"

\* json.dump writes a key None as "null"; a string key is written as it is
json_key(k) == IF k = PyNone THEN "null" ELSE k

dump_keys(m) == [k \in {json_key(x) : x \in DOMAIN m} |->
                    m[CHOOSE x \in DOMAIN m : json_key(x) = k]]

json_dump(store) ==
    [kind |-> "json", data |-> [c \in DOMAIN store |-> dump_keys(store[c])]]

load_processed_posts(d) ==
    IF d.kind = "absent" THEN EmptyStore
    ELSE IF d.kind = "garbage" THEN EmptyStore
    ELSE IF "posts" \notin DOMAIN d.data
         THEN [posts |-> d.data, last_check_times |-> EmptyMap]
         ELSE d.data

\* a save that writes the posts map alone
save_processed_posts_posts_only(store, old, outcome) ==
    IF outcome = "ok" THEN [kind |-> "json", data |-> dump_keys(store.posts)]
    ELSE IF outcome = "open_error" THEN old
    ELSE Garbage

\* outcome: "ok", "open_error" (open() raises, file untouched) or
\* "write_error" (json.dump raises after open(..., 'w') truncated the file)
save_processed_posts(store, old, outcome) ==
    IF outcome = "ok" THEN json_dump(store)
    ELSE IF outcome = "open_error" THEN old
    ELSE Garbage

\* the outcomes explored: the save succeeds, or json.dump raises
SaveOutcomes == {"ok", "write_error"}


(***************************************************************************)
(* Feed entries.  An entry is a record with the attributes the parser      *)
(* gave it; title and description are texts, link and guid are strings.    *)
(***************************************************************************)
ItemA == [guid |-> "g1", title |-> <<"t1">>, link |-> "l1", description |-> <<"d1">>]
ItemB == [guid |-> "g2", title |-> <<"t2">>, link |-> "l2", description |-> <<>>]
ItemD == [guid |-> "g4", title |-> <<"t4">>, link |-> "l4", description |-> <<"d4">>]
\* an ordinary article whose title contains one of the phrases of is_error_message
ItemE == [guid |-> "g5", title |-> <<"Future Date", "t5">>, link |-> "l5",
          description |-> <<"d5">>]

\* the entry of ItemA as another feed carries it: same guid, other title and link
ItemA2 == [guid |-> "g1", title |-> <<"t1b">>, link |-> "l1b", description |-> <<"d1">>]
\* entries of a feed that gives its items no guid: the parser sets the attribute to None
ItemF == [guid |-> PyNone, title |-> <<"t6">>, link |-> "l6", description |-> <<"d6">>]
ItemG == [guid |-> PyNone, title |-> <<"t7">>, link |-> "l7", description |-> <<"d7">>]

\* what each feed serves
FeedItems(url) ==
    IF url = "u1" THEN <<ItemA, ItemB, ItemE, ItemD>>
    ELSE <<ItemA2, ItemF, ItemG>>

\* what requests.get / atoma.parse_rss_bytes can do for a url: fail, or return a feed
\* without items, or return the feed's items
FetchOutcomes(url) ==
    { [error |-> TRUE, items |-> <<>>],
      [error |-> FALSE, items |-> <<>>],
      [error |-> FALSE, items |-> FeedItems(url)] }

post_id(item) == IF "guid" \in DOMAIN item THEN item.guid ELSE item.link

\* the identities that occur in the feeds
Ids == UNION {{post_id(FeedItems(rss_urls[u])[k]) : k \in 1..Len(FeedItems(rss_urls[u]))} :
                 u \in 1..Len(rss_urls)}

SeenRecord(item, t) == [title |-> item.title, link |-> item.link, processed_at |-> t]

(***************************************************************************)
(* fetch_rss_feed: any exception is caught and None is returned            *)
(***************************************************************************)
\* a fetch_rss_feed without its try/except
fetch_rss_feed_uncaught(o) ==
    [raised |-> o.error, none |-> FALSE, items |-> o.items]

fetch_rss_feed(o) ==
    [raised |-> FALSE, none |-> o.error, items |-> o.items]

(***************************************************************************)
(* Novelty filter (lines 184-194) and cap (lines 196-204)                  *)
(***************************************************************************)
\* a filter that forgets to look into the seen-set
is_new_unchecked(pid, posts) == TRUE

\* a filter that looks for the identity among the stored links
is_new_link_lookup(pid, posts) == \A k \in DOMAIN posts : posts[k].link # pid

is_new(pid, posts) == pid \notin DOMAIN posts

\* a filter that writes the record of every entry it looks at, seen or not
RECURSIVE novelty_filter_refresh(_, _, _, _)
novelty_filter_refresh(its, k, acc, t) ==
    IF k > Len(its) THEN acc
    ELSE LET item == its[k]
             pid == post_id(item)
         IN  novelty_filter_refresh(its, k + 1,
                 [new |-> IF is_new(pid, acc.posts) THEN Append(acc.new, item) ELSE acc.new,
                  posts |-> (pid :> SeenRecord(item, t)) @@ acc.posts], t)

RECURSIVE novelty_filter(_, _, _, _)
novelty_filter(its, k, acc, t) ==
    IF k > Len(its) THEN acc
    ELSE LET item == its[k]
             pid == post_id(item)
         IN  IF is_new(pid, acc.posts)
             THEN novelty_filter(its, k + 1,
                      [new |-> Append(acc.new, item),
                       posts |-> (pid :> SeenRecord(item, t)) @@ acc.posts], t)
             ELSE novelty_filter(its, k + 1, acc, t)

\* a first-run test that looks at the size of the seen-set alone
is_first_run_small_store(new, posts) == Cardinality(DOMAIN posts) <= FirstRunLimit

is_first_run(new, posts) == Cardinality(DOMAIN posts) <= Len(new)

\* a first-run branch that forgets its slice
cap_new_posts_no_first_cap(new, posts) ==
    IF is_first_run(new, posts) THEN new
    ELSE Take(new, max_posts_per_feed)

\* a cap that hands the kept entries over oldest first
cap_new_posts_reversed(new, posts) ==
    LET kept == IF is_first_run(new, posts) THEN Take(new, FirstRunLimit)
                ELSE Take(new, max_posts_per_feed)
    IN  [k \in 1..Len(kept) |-> kept[Len(kept) + 1 - k]]

\* a steady-state slice that is one too long
cap_new_posts_off_by_one(new, posts) ==
    IF is_first_run(new, posts) THEN Take(new, FirstRunLimit)
    ELSE Take(new, max_posts_per_feed + 1)

cap_new_posts(new, posts) ==
    IF is_first_run(new, posts) THEN Take(new, FirstRunLimit)
    ELSE Take(new, max_posts_per_feed)

\* number of entries of the list s whose identity is id
RECURSIVE CountId(_, _)
CountId(s, id) ==
    IF s = <<>> THEN 0
    ELSE (IF post_id(Head(s)) = id THEN 1 ELSE 0) + CountId(Tail(s), id)

(***************************************************************************)
(* Texts                                                                   *)
(***************************************************************************)
\* str.lower() on a symbol
lower(c) ==
    CASE c = "I apologize" -> "i apologize"
      [] c = "I cannot access" -> "i cannot access"
      [] c = "I notice the provided" -> "i notice the provided"
      [] c = "I'm unable to" -> "i'm unable to"
      [] c = "I don't have access" -> "i don't have access"
      [] c = "I cannot provide" -> "i cannot provide"
      [] c = "Future Date" -> "future date"
      [] c = "HEADLINE" -> "headline"
      [] c = "VALID" -> "valid"
      [] c = "Read more: " -> "read more: "
      [] OTHER -> c

Lower(s) == [k \in 1..Len(s) |-> lower(s[k])]

\* str.strip(): leading and trailing whitespace removed
RECURSIVE LStrip(_)
LStrip(s) == IF s # <<>> /\ Head(s) = " " THEN LStrip(Tail(s)) ELSE s
RECURSIVE RStrip(_)
RStrip(s) == IF s # <<>> /\ s[Len(s)] = " " THEN RStrip(SubSeq(s, 1, Len(s) - 1)) ELSE s
Strip(s) == RStrip(LStrip(s))

error_indicators ==
    << "I apologize", "I cannot access", "I notice the provided", "future date",
       "cannot accurately transform", "without the actual article content",
       "I'm unable to", "I don't have access", "appears to be from a future",
       "I cannot provide" >>

is_error_message(message) ==
    LET message_lower == Lower(message)
    IN  \E n \in 1..Len(error_indicators) :
            \E k \in 1..Len(message_lower) : message_lower[k] = lower(error_indicators[n])

\* lines 210-214
content_of(item) ==
    IF "description" \in DOMAIN item /\ item.description # <<>> THEN item.description
    ELSE IF "summary" \in DOMAIN item /\ item.summary # <<>> THEN item.summary
    ELSE <<>>

(***************************************************************************)
(* The text-generation service: a reply is [raised, text]                  *)
(***************************************************************************)
ValidationReplies ==
    { [raised |-> FALSE, text |-> <<" ", "VALID">>],
      [raised |-> FALSE, text |-> <<"SKIP_NO_CONTENT">>],
      [raised |-> TRUE, text |-> <<>>] }

\* a validator that fails closed
validate_content_closed(reply) ==
    IF reply.raised THEN [is_valid |-> FALSE, reason |-> <<"Validation failed">>]
    ELSE LET result == Strip(reply.text)
         IN  IF result = <<"VALID">>
             THEN [is_valid |-> TRUE, reason |-> <<"Content is valid">>]
             ELSE [is_valid |-> FALSE, reason |-> result]

validate_content(reply) ==
    IF reply.raised THEN [is_valid |-> TRUE, reason |-> <<"Validation failed">>]
    ELSE LET result == Strip(reply.text)
         IN  IF result = <<"VALID">>
             THEN [is_valid |-> TRUE, reason |-> <<"Content is valid">>]
             ELSE [is_valid |-> FALSE, reason |-> result]

AiReplies(link) ==
    { [raised |-> FALSE, text |-> <<"HEADLINE", link, " ">>],
      [raised |-> FALSE, text |-> <<"I apologize", link>>],
      [raised |-> TRUE, text |-> <<>>] }

Fallback(title, content, link) ==
    <<"**">> \o title \o <<"**">> \o Take(content, FallbackBodyLen)
        \o <<"...", "Read more: ", link>>

process_with_ai(title, content, link, reply) ==
    IF reply.raised THEN Fallback(title, content, link)
    ELSE Strip(reply.text)

(***************************************************************************)
(* send_to_discord.  channel: get_channel found the channel; failAt = k > 0:*)
(* the k-th channel.send raises (caught and logged), failAt = 0: none does. *)
(***************************************************************************)
NumParts(message) == (Len(message) + DiscordLimit - 1) \div DiscordLimit

\* chunks that are one symbol short of the stride
Parts_short(message) ==
    IF Len(message) > DiscordLimit
    THEN [k \in 1..NumParts(message) |->
             SubSeq(message, (k - 1) * DiscordLimit + 1,
                    Min(k * DiscordLimit - 1, Len(message)))]
    ELSE <<message>>

Parts(message) ==
    IF Len(message) > DiscordLimit
    THEN [k \in 1..NumParts(message) |->
             SubSeq(message, (k - 1) * DiscordLimit + 1, Min(k * DiscordLimit, Len(message)))]
    ELSE <<message>>

send_to_discord(message, channel, failAt) ==
    IF ~channel THEN <<>>
    ELSE IF failAt = 0 THEN Parts(message)
    ELSE SubSeq(Parts(message), 1, failAt - 1)


(***************************************************************************)
(* The documents processed_posts.json can hold when the process starts     *)
(***************************************************************************)
OldRecord == [title |-> <<"t1">>, link |-> "l1", processed_at |-> 0]

InitialDocs ==
    { Absent,
      Garbage,
      \* legacy shape: a bare identity -> record mapping
      [kind |-> "json", data |-> [g1 |-> OldRecord]],
      \* legacy shape, one entry of which has the identity "posts"
      [kind |-> "json", data |-> [posts |-> OldRecord]],
      \* posts without last_check_times
      [kind |-> "json", data |-> [posts |-> [g1 |-> OldRecord]]],
      \* current shape
      [kind |-> "json",
       data |-> [posts |-> [g1 |-> OldRecord], last_check_times |-> [u1 |-> 0]]] }

\* the time that can pass between one cycle and the next
Elapsed == {10, 60}

\* validation: "off", "valid", "invalid" (the service's verdict) or "error" (the call
\* failed); ai: "none" (not called), "reply" or "raised"; message: ai_message;
\* flagged: is_error_message(ai_message); channel, failAt: as in send_to_discord
NoEvent == [id |-> "", validation |-> "none", ai |-> "none", message |-> <<>>,
            flagged |-> FALSE, sendCalled |-> FALSE, channel |-> FALSE, failAt |-> 0]

Init ==
    /\ disk \in InitialDocs
    /\ processed_posts = EmptyStore
    /\ enable_validation \in BOOLEAN
    /\ pc = "boot"
    /\ now = 0
    /\ current_time = 0
    /\ i = 0
    /\ found = 0
    /\ firstRun = FALSE
    /\ new_posts = <<>>
    /\ j = 0
    /\ msg = <<>>
    /\ delivered = <<>>
    /\ ev = NoEvent
    /\ items = <<>>
    /\ seenBefore = {}
    /\ posted = <<>>
    /\ skipped = 0
    /\ newCount = [id \in Ids |-> 0]
    /\ publishedBefore = {}
    /\ publishedNow = {}
    /\ failed = FALSE
    /\ visited = {}
    /\ lastCycle = "none"
    /\ cycles = 0
    /\ crashes = 0
    /\ saveLog = <<>>
    /\ dropped = {}
    /\ cyclePosted = <<>>
    /\ cycleFetched = <<>>

\* the locals of one pass over a feed, and their history, are dropped
ResetPass ==
    /\ found' = 0
    /\ firstRun' = FALSE
    /\ new_posts' = <<>>
    /\ j' = 0
    /\ msg' = <<>>
    /\ delivered' = <<>>
    /\ ev' = NoEvent
    /\ items' = <<>>
    /\ seenBefore' = {}
    /\ posted' = <<>>
    /\ skipped' = 0

UnchangedPass ==
    UNCHANGED <<found, firstRun, new_posts, j, msg, delivered, ev, items, seenBefore,
                posted, skipped>>

\* __init__ (line 46): the store is loaded; on_ready then starts rss_checker
Boot ==
    /\ pc = "boot"
    /\ processed_posts' = load_processed_posts(disk)
    /\ pc' = "idle"
    /\ UNCHANGED <<disk, enable_validation, now, current_time, i, newCount,
                   publishedBefore, publishedNow, failed, visited, lastCycle, cycles,
                   crashes, saveLog, dropped, cyclePosted, cycleFetched>>
    /\ UnchangedPass

\* the timer fires: rss_checker starts (lines 160-162)
StartCycle(d) ==
    /\ pc = "idle"
    /\ cycles < MaxCycles
    /\ now + d <= MaxTime
    /\ now' = now + d
    /\ current_time' = now + d
    /\ cycles' = cycles + 1
    /\ i' = 1
    /\ pc' = "check"
    /\ failed' = FALSE
    /\ visited' = {}
    /\ lastCycle' = "running"
    /\ cyclePosted' = <<>>
    /\ cycleFetched' = <<>>
    /\ UNCHANGED <<disk, processed_posts, enable_validation, newCount, publishedBefore,
                   publishedNow, crashes, dropped>>
    /\ saveLog' = <<>>
    /\ UnchangedPass

\* the for loop moves on to the next url, or the cycle ends
AfterFeed ==
    /\ i' = i + 1
    /\ pc' = IF i = Len(rss_urls) THEN "idle" ELSE "check"
    /\ lastCycle' = IF i = Len(rss_urls) THEN "completed" ELSE lastCycle

\* an exception reaches the except of line 255: the cycle is over
AbortCycle ==
    /\ pc' = "idle"
    /\ lastCycle' = "aborted"
    /\ UNCHANGED i

throttled(store, url, t) ==
    /\ url \in DOMAIN store.last_check_times
    /\ t - store.last_check_times[url] < check_interval

\* lines 164-175
CheckFeed ==
    /\ pc = "check"
    /\ visited' = visited \cup {i}
    /\ IF "last_check_times" \notin DOMAIN processed_posts
       THEN AbortCycle
       ELSE IF throttled(processed_posts, rss_urls[i], current_time)
            THEN AfterFeed
            ELSE /\ pc' = "fetch"
                 /\ UNCHANGED <<i, lastCycle>>
    /\ UNCHANGED <<disk, processed_posts, enable_validation, now, current_time, newCount,
                   publishedBefore, publishedNow, failed, cycles, crashes, dropped,
                   cyclePosted, cycleFetched>>
    /\ saveLog' = <<>>
    /\ UnchangedPass

\* a last-check update that is lost
set_last_check_lost(store, url, t) == store

set_last_check(store, url, t) ==
    [store EXCEPT !.last_check_times = (url :> t) @@ store.last_check_times]

\* lines 176-206: fetch, novelty filter, cap
FetchFeed ==
    /\ pc = "fetch"
    /\ \E o \in FetchOutcomes(rss_urls[i]) :
       LET feed == fetch_rss_feed(o)
       IN  IF feed.raised
           THEN /\ AbortCycle
                /\ failed' = TRUE
                /\ UNCHANGED <<processed_posts, newCount, dropped, cycleFetched>>
                /\ UnchangedPass
           ELSE IF feed.none \/ feed.items = <<>>
           THEN /\ processed_posts' = set_last_check(processed_posts, rss_urls[i], current_time)
                /\ failed' = (failed \/ feed.none)
                /\ AfterFeed
                /\ UNCHANGED <<newCount, dropped, cycleFetched>>
                /\ UnchangedPass
           ELSE LET r == novelty_filter(feed.items, 1,
                             [new |-> <<>>, posts |-> processed_posts.posts], now)
                    capped == cap_new_posts(r.new, r.posts)
                IN  /\ processed_posts' = [processed_posts EXCEPT !.posts = r.posts]
                    /\ items' = feed.items
                    /\ seenBefore' = DOMAIN processed_posts.posts
                    /\ found' = Len(r.new)
                    /\ firstRun' = is_first_run(r.new, r.posts)
                    /\ new_posts' = capped
                    /\ newCount' = [id \in Ids |-> newCount[id] + CountId(r.new, id)]
                    /\ dropped' = dropped \cup {post_id(r.new[k]) :
                                                    k \in Len(capped) + 1 .. Len(r.new)}
                    /\ cycleFetched' = cycleFetched \o
                                            [k \in 1..Len(feed.items) |-> post_id(feed.items[k])]
                    /\ j' = IF capped = <<>> THEN 0 ELSE 1
                    /\ pc' = IF capped = <<>> THEN "mark" ELSE "entry"
                    /\ UNCHANGED <<i, lastCycle, failed, msg, delivered, ev, posted, skipped>>
    /\ UNCHANGED <<disk, enable_validation, now, current_time, publishedBefore,
                   publishedNow, visited, cycles, crashes, saveLog, cyclePosted>>


\* lines 208-244: one iteration of the loop over new_posts
ProcessEntry(vr, channel, failAt) ==
    /\ pc = "entry"
    /\ \E ar \in AiReplies(new_posts[j].link) :
       LET item == new_posts[j]
           content == content_of(item)
           v == IF enable_validation THEN validate_content(vr)
                ELSE [is_valid |-> TRUE, reason |-> <<>>]
           vkind == IF ~enable_validation THEN "off"
                    ELSE IF vr.raised THEN "error"
                    ELSE IF v.is_valid THEN "valid" ELSE "invalid"
           ai_message == process_with_ai(item.title, content, item.link, ar)
           parts == send_to_discord(ai_message, channel, failAt)
       IN  IF ~v.is_valid
           THEN /\ ev' = [NoEvent EXCEPT !.id = post_id(item), !.validation = vkind]
                /\ skipped' = skipped + 1
                /\ failed' = failed
                /\ msg' = <<>>
                /\ delivered' = <<>>
                /\ dropped' = dropped \cup {post_id(item)}
                /\ UNCHANGED <<posted, publishedNow, cyclePosted>>
           ELSE IF is_error_message(ai_message)
           THEN /\ ev' = [NoEvent EXCEPT !.id = post_id(item), !.validation = vkind,
                              !.ai = IF ar.raised THEN "raised" ELSE "reply",
                              !.message = ai_message, !.flagged = TRUE]
                /\ skipped' = skipped + 1
                /\ failed' = (failed \/ vkind = "error" \/ ar.raised)
                /\ msg' = <<>>
                /\ delivered' = <<>>
                /\ dropped' = dropped \cup {post_id(item)}
                /\ UNCHANGED <<posted, publishedNow, cyclePosted>>
           ELSE /\ failAt <= Len(Parts(ai_message))
                /\ channel \/ failAt = 0
                /\ ev' = [id |-> post_id(item), validation |-> vkind,
                          ai |-> IF ar.raised THEN "raised" ELSE "reply",
                          message |-> ai_message, flagged |-> FALSE,
                          sendCalled |-> TRUE, channel |-> channel, failAt |-> failAt]
                /\ msg' = ai_message
                /\ delivered' = parts
                /\ failed' = (failed \/ vkind = "error" \/ ar.raised \/ ~channel \/ failAt # 0)
                /\ UNCHANGED dropped
                /\ IF parts = Parts(ai_message)
                   THEN /\ posted' = Append(posted, post_id(item))
                        /\ publishedNow' = publishedNow \cup {post_id(item)}
                        /\ cyclePosted' = Append(cyclePosted, post_id(item))
                        /\ UNCHANGED skipped
                   ELSE /\ skipped' = skipped + 1
                        /\ UNCHANGED <<posted, publishedNow, cyclePosted>>
    /\ j' = j + 1
    /\ pc' = IF j = Len(new_posts) THEN "save" ELSE "entry"
    /\ UNCHANGED <<disk, processed_posts, enable_validation, now, current_time, i, found,
                   firstRun, new_posts, items, seenBefore, newCount, publishedBefore,
                   visited, lastCycle, cycles, crashes, saveLog, cycleFetched>>

\* lines 246-247
SavePosts(outcome) ==
    /\ pc = "save"
    /\ disk' = save_processed_posts(processed_posts, disk, outcome)
    /\ failed' = (failed \/ outcome # "ok")
    /\ saveLog' = Append(saveLog, outcome)
    /\ pc' = "mark"
    /\ UNCHANGED <<processed_posts, enable_validation, now, current_time, i, newCount,
                   publishedBefore, publishedNow, visited, lastCycle, cycles, crashes,
                   dropped, cyclePosted, cycleFetched>>
    /\ UnchangedPass

\* lines 251-253
MarkChecked(outcome) ==
    /\ pc = "mark"
    /\ processed_posts' = set_last_check(processed_posts, rss_urls[i], current_time)
    /\ disk' = save_processed_posts(processed_posts', disk, outcome)
    /\ failed' = (failed \/ outcome # "ok")
    /\ saveLog' = Append(saveLog, outcome)
    /\ AfterFeed
    /\ ResetPass
    /\ UNCHANGED <<enable_validation, now, current_time, newCount, publishedBefore,
                   publishedNow, visited, cycles, crashes, dropped, cyclePosted,
                   cycleFetched>>

\* the process dies and is started again: memory is lost, the file and the channel stay
Restart ==
    /\ crashes < MaxCrashes
    /\ crashes' = crashes + 1
    /\ pc' = "boot"
    /\ processed_posts' = EmptyStore
    /\ i' = 0
    /\ newCount' = [id \in Ids |-> 0]
    /\ publishedBefore' = publishedBefore \cup publishedNow
    /\ publishedNow' = {}
    /\ failed' = FALSE
    /\ visited' = {}
    /\ lastCycle' = "none"
    /\ saveLog' = <<>>
    /\ dropped' = {}
    /\ cyclePosted' = <<>>
    /\ cycleFetched' = <<>>
    /\ ResetPass
    /\ UNCHANGED <<enable_validation, now, current_time, cycles>>

Crash ==
    /\ pc # "boot"
    /\ Restart
    /\ UNCHANGED disk

\* the process dies inside save_processed_posts, after open(..., 'w') truncated the
\* file and before json.dump wrote all of it
CrashDuringSave ==
    /\ pc \in {"save", "mark"}
    /\ Restart
    /\ disk' = Garbage

Next ==
    \/ Boot
    \/ \E d \in Elapsed : StartCycle(d)
    \/ CheckFeed
    \/ FetchFeed
    \/ \E vr \in ValidationReplies, channel \in BOOLEAN, failAt \in 0..1 :
           ProcessEntry(vr, channel, failAt)
    \/ \E outcome \in SaveOutcomes : SavePosts(outcome)
    \/ \E outcome \in SaveOutcomes : MarkChecked(outcome)
    \/ Crash
    \/ CrashDuringSave

Spec == Init /\ [][Next]_vars


(***************************************************************************)
(* The publisher on its own: send_to_discord applied to texts of many      *)
(* lengths.  The text of length L is <<1, ..., L>>, so that any symbol     *)
(* lost, repeated or moved shows.                                          *)
(***************************************************************************)
Text(L) == [k \in 1..L |-> k]

TextLens ==
    {L \in 0..MaxTextLen :
        \/ L % DiscordLimit \in {0, 1, 2, DiscordLimit - 2, DiscordLimit - 1}
        \/ L % 500 = 0
        \/ L = MaxTextLen}

SendInit ==
    /\ msg \in {Text(L) : L \in TextLens}
    /\ pc = "send"
    /\ disk = Absent
    /\ processed_posts = EmptyStore
    /\ enable_validation = TRUE
    /\ now = 0
    /\ current_time = 0
    /\ i = 0
    /\ found = 0
    /\ firstRun = FALSE
    /\ new_posts = <<>>
    /\ j = 0
    /\ delivered = <<>>
    /\ ev = NoEvent
    /\ items = <<>>
    /\ seenBefore = {}
    /\ posted = <<>>
    /\ skipped = 0
    /\ newCount = [id \in Ids |-> 0]
    /\ publishedBefore = {}
    /\ publishedNow = {}
    /\ failed = FALSE
    /\ visited = {}
    /\ lastCycle = "none"
    /\ cycles = 0
    /\ crashes = 0
    /\ saveLog = <<>>
    /\ dropped = {}
    /\ cyclePosted = <<>>
    /\ cycleFetched = <<>>

SendMessage(channel, failAt) ==
    /\ pc = "send"
    /\ failAt <= Len(Parts(msg))
    /\ channel \/ failAt = 0
    /\ delivered' = send_to_discord(msg, channel, failAt)
    /\ ev' = [NoEvent EXCEPT !.sendCalled = TRUE, !.channel = channel, !.failAt = failAt]
    /\ pc' = "sent"
    /\ UNCHANGED <<disk, processed_posts, enable_validation, now, current_time, i, found,
                   firstRun, new_posts, j, msg, items, seenBefore, posted, skipped,
                   newCount, publishedBefore, publishedNow, failed, visited, lastCycle,
                   cycles, crashes, saveLog, dropped, cyclePosted, cycleFetched>>

SendNext == \E channel \in BOOLEAN, failAt \in 0..NumParts(Text(MaxTextLen)) :
                SendMessage(channel, failAt)

SpecSend == SendInit /\ [][SendNext]_vars


(***************************************************************************)
(* Properties                                                              *)
(***************************************************************************)
InPass == pc \in {"entry", "save", "mark"}

ItemIds(its) == {post_id(its[k]) : k \in 1..Len(its)}

Distinct(its) == \A m, n \in 1..Len(its) : post_id(its[m]) = post_id(its[n]) => m = n

\* the entry the last pipeline step was about
LastEntry == new_posts[j - 1]

AfterEntry == pc \in {"entry", "save"} /\ j > 1

\* C1: within one run of the process every identity enters a new-entry list at most
\* once, and an identity that was in the seen-set before a pass is not in that pass's
\* new-entry list, also when several feeds return it or a fetched list repeats it.
C1_NewAtMostOnce ==
    pc # "boot" =>
        /\ \A id \in Ids :
              /\ newCount[id] <= 1
              /\ newCount[id] = 1 => id \in DOMAIN processed_posts.posts
        /\ \A k \in 1..Len(new_posts) : post_id(new_posts[k]) \notin seenBefore

\* a second feed returns an identity that became seen earlier in this run, in a list
\* that holds another identity twice
C1_Witness ==
    /\ pc = "entry"
    /\ \E id \in seenBefore : newCount[id] = 1 /\ CountId(items, id) = 1
    /\ \E id \in Ids : CountId(items, id) = 2 /\ newCount[id] = 1

\* C2: on an empty store, a pass over a fetch of K entries of distinct identities
\* publishes at most min(K, 3) entries, all among the first 3 of the feed, and all K
\* identities are in the seen-set.
C2_FirstPass ==
    (InPass /\ seenBefore = {} /\ Distinct(items)) =>
        /\ Len(posted) <= Min(Len(items), 3)
        /\ \A k \in 1..Len(posted) :
               \E m \in 1..Min(Len(items), 3) : posted[k] = post_id(items[m])
        /\ ItemIds(items) \subseteq DOMAIN processed_posts.posts

C2_Witness ==
    /\ pc = "mark"
    /\ seenBefore = {}
    /\ Len(items) = 4
    /\ Distinct(items)
    /\ Len(posted) = 3

\* C3 as stated: a steady-state pass with M > max_posts_per_feed new entries posts
\* exactly max_posts_per_feed entries and marks all M seen.
C3_ExactlyMaxPosted ==
    (pc = "mark" /\ ~firstRun /\ found > max_posts_per_feed) =>
        /\ Len(posted) = max_posts_per_feed
        /\ ItemIds(items) \subseteq DOMAIN processed_posts.posts

\* C3 amended: in such a pass exactly max_posts_per_feed entries survive the cap and
\* go through the pipeline, each is posted unless it is rejected, flagged or not
\* delivered, so at most max_posts_per_feed are posted, and all M are marked seen.
C3_AtMostMaxPosted ==
    (InPass /\ ~firstRun /\ found > max_posts_per_feed) =>
        /\ Len(new_posts) = max_posts_per_feed
        /\ Len(posted) <= max_posts_per_feed
        /\ pc \in {"save", "mark"} => Len(posted) + skipped = max_posts_per_feed
        /\ ItemIds(items) \subseteq DOMAIN processed_posts.posts
        /\ Cardinality(DOMAIN processed_posts.posts \ seenBefore) = found

C3_Witness ==
    /\ pc = "mark"
    /\ ~firstRun
    /\ found = 3
    /\ Len(posted) = max_posts_per_feed

has_last_check(store, url) ==
    /\ "last_check_times" \in DOMAIN store
    /\ url \in DOMAIN store.last_check_times

\* C4: a feed with a last-check time less than check_interval minutes old is skipped
\* without a fetch and without any change to the store or the channel; any other feed
\* is fetched.
C4_Throttle ==
    [][(pc = "check" /\ pc' # "boot") =>
          IF /\ has_last_check(processed_posts, rss_urls[i])
             /\ current_time - processed_posts.last_check_times[rss_urls[i]] < check_interval
          THEN /\ pc' # "fetch"
               /\ i' = i + 1
               /\ processed_posts' = processed_posts
               /\ disk' = disk
               /\ publishedNow' = publishedNow
          ELSE pc' = "fetch"]_vars

\* C5: when the text-generation call raises, the message is the fallback built from
\* title, body[:500] and link, and it is passed to the publisher.
C5_FallbackPublished ==
    (AfterEntry /\ ev.ai = "raised") =>
        /\ ev.message = Fallback(LastEntry.title, content_of(LastEntry), LastEntry.link)
        /\ ev.sendCalled
        /\ msg = ev.message

IsSeenRecord(r) == DOMAIN r = {"title", "link", "processed_at"}

\* a bare identity -> record mapping
IsLegacy(d) == d.kind = "json" /\ \A k \in DOMAIN d.data : IsSeenRecord(d.data[k])

\* C6: loading a legacy document yields posts = the document, last_check_times = {}.
C6_LegacyLoad ==
    [][(pc = "boot" /\ pc' = "idle" /\ IsLegacy(disk)) =>
          processed_posts' = [posts |-> disk.data, last_check_times |-> EmptyMap]]_vars

CeilDiv(a, b) == IF a % b = 0 THEN a \div b ELSE a \div b + 1

RECURSIVE Concat(_)
Concat(ss) == IF ss = <<>> THEN <<>> ELSE Head(ss) \o Concat(Tail(ss))

\* C7: with the channel available and no delivery failure, a text of length L <= 2000
\* is sent as one message equal to it, and a longer one as ceil(L/2000) chunks of at
\* most 2000 symbols whose concatenation in delivery order is the text.
C7_Chunks ==
    (pc = "sent" /\ ev.channel /\ ev.failAt = 0) =>
        /\ Len(msg) <= 2000 => delivered = <<msg>>
        /\ Len(msg) > 2000 =>
              /\ Len(delivered) = CeilDiv(Len(msg), 2000)
              /\ \A k \in 1..Len(delivered) : Len(delivered[k]) <= 2000
              /\ Concat(delivered) = msg

C7_Witness ==
    /\ pc = "sent"
    /\ ev.channel
    /\ ev.failAt = 0
    /\ Len(msg) = 4500
    /\ Len(delivered) = 3

\* C8: an entry whose validation call failed is transformed and published as one
\* judged valid is; an entry is dropped by validation only on a verdict other than
\* VALID.
C8_FailOpen ==
    (AfterEntry /\ enable_validation) =>
        /\ ev.validation \in {"valid", "error"} =>
              /\ ev.ai # "none"
              /\ ev.flagged = is_error_message(ev.message)
              /\ ev.sendCalled = ~ev.flagged
              /\ ev.sendCalled =>
                    /\ msg = ev.message
                    /\ delivered = send_to_discord(msg, ev.channel, ev.failAt)
        /\ ev.ai = "none" => ev.validation = "invalid"

C8_Witness ==
    /\ AfterEntry
    /\ ev.validation = "error"
    /\ ev.sendCalled
    /\ delivered = <<ev.message>>
    /\ posted # <<>>
    /\ posted[Len(posted)] = ev.id

\* C9: an entry published before a crash is not published again after the restart.
C9_NoRepublish == publishedBefore \cap publishedNow = {}

\* C10: a fetch, validation, transform, publish or save failure does not end the
\* cycle: a cycle in which one occurred is not aborted, reaches every feed, and every
\* entry that survived the cap goes through the pipeline.
C10_Isolated ==
    failed =>
        /\ lastCycle # "aborted"
        /\ lastCycle = "completed" => visited = 1..Len(rss_urls)
        /\ pc \in {"save", "mark"} => Len(posted) + skipped = Len(new_posts)

\* a failure occurred while the first feed was processed, and the first entry of the
\* second feed is about to go through the pipeline
C10_Witness ==
    /\ failed
    /\ i = 2
    /\ pc = "entry"
    /\ j = 1


\* C11: when the fetch of an unthrottled feed fails or returns no entries, the feed's
\* last-check time becomes the cycle's timestamp, posts and the channel are unchanged,
\* and the process fetches no feed whose last check is less than check_interval old.
C11_FailedFetchThrottles ==
    [][/\ (pc = "fetch" /\ pc' \in {"check", "idle"}) =>
              /\ has_last_check(processed_posts', rss_urls[i])
              /\ processed_posts'.last_check_times[rss_urls[i]] = current_time
              /\ processed_posts'.posts = processed_posts.posts
              /\ publishedNow' = publishedNow
              /\ disk' = disk
       /\ pc' = "fetch" => ~throttled(processed_posts', rss_urls[i'], current_time')]_vars

\* the first feed was fetched without result in the first cycle (nothing is seen, yet
\* it has a last-check time) and is skipped by the throttle in the second
C11_Witness ==
    /\ pc = "check"
    /\ i = 1
    /\ cycles = 2
    /\ crashes = 0
    /\ processed_posts.posts = EmptyMap
    /\ throttled(processed_posts, rss_urls[1], current_time)

\* C12: a crash during a save leaves the file holding the complete old document or
\* the complete new one.
C12_SaveAtomic ==
    [][(pc \in {"save", "mark"} /\ pc' = "boot") =>
          \/ disk' = disk
          \/ disk' = json_dump(IF pc = "save" THEN processed_posts
                               ELSE set_last_check(processed_posts, rss_urls[i],
                                                   current_time))]_vars

\* C13: a failed save changes neither the in-memory store nor the course of the
\* cycle, and right after a successful save the file holds the whole in-memory store,
\* whatever the saves before it did.
C13_SaveCatchesUp ==
    [][(pc \in {"save", "mark"} /\ pc' # "boot") =>
          /\ processed_posts' = (IF pc = "save" THEN processed_posts
                                 ELSE set_last_check(processed_posts, rss_urls[i],
                                                     current_time))
          /\ lastCycle' # "aborted"
          /\ pc' = (IF pc = "save" THEN "mark"
                    ELSE IF i = Len(rss_urls) THEN "idle" ELSE "check")
          /\ saveLog'[Len(saveLog')] = "ok" => disk' = json_dump(processed_posts')]_vars

\* the save of line 247 failed, the save of line 253 succeeded, and the file holds
\* the store with the entries of the pass and the feed's last-check time
C13_Witness ==
    /\ pc \in {"check", "idle"}
    /\ saveLog = <<"write_error", "ok">>
    /\ processed_posts.posts # EmptyMap
    /\ disk = json_dump(processed_posts)

\* C14: at the end of a cycle in which nothing failed the file holds the in-memory
\* store.
C14_SavedAtCycleEnd ==
    (pc = "idle" /\ lastCycle = "completed" /\ ~failed) => disk = json_dump(processed_posts)

\* C15: within a run, an identity that is in posts stays there and its record never
\* changes, also when a later fetch returns the identity with another title or link.
C15_WriteOnce ==
    [][(pc # "boot" /\ pc' # "boot") =>
          \A id \in DOMAIN processed_posts.posts :
              /\ id \in DOMAIN processed_posts'.posts
              /\ processed_posts'.posts[id] = processed_posts.posts[id]]_vars

\* a pass whose feed returned an identity recorded earlier in this run, with a link
\* other than the recorded one
C15_Witness ==
    /\ InPass
    /\ \E k \in 1..Len(items) :
           LET id == post_id(items[k])
           IN  /\ id \in seenBefore
               /\ newCount[id] = 1
               /\ processed_posts.posts[id].link # items[k].link
               /\ processed_posts.posts[id].title # items[k].title

RECURSIVE IsSubseq(_, _)
IsSubseq(s, t) ==
    IF s = <<>> THEN TRUE
    ELSE IF t = <<>> THEN FALSE
    ELSE IF Head(s) = Head(t) THEN IsSubseq(Tail(s), Tail(t))
    ELSE IsSubseq(s, Tail(t))

\* C16: in a cycle the feeds are reached in configuration order, the entries published
\* in a pass are in the order of the feed's list, the entries published in the cycle
\* are a subsequence of the fetched lists concatenated in configuration order, and no
\* entry of a feed is pending when the next feed is checked or fetched.
C16_Ordered ==
    pc # "boot" =>
        /\ IsSubseq(cyclePosted, cycleFetched)
        /\ IsSubseq(posted, [k \in 1..Len(items) |-> post_id(items[k])])
        /\ IsSubseq(posted, cyclePosted)
        /\ InPass => items = FeedItems(rss_urls[i])
        /\ pc = "check" => visited = 1..(i - 1)
        /\ pc \in {"fetch", "entry", "save", "mark"} => visited = 1..i
        /\ pc = "idle" => \E n \in 0..Len(rss_urls) : visited = 1..n
        /\ pc \in {"check", "fetch", "idle"} => new_posts = <<>> /\ j = 0 /\ posted = <<>>

\* a completed cycle that published three entries of the first feed and then one of
\* the second
C16_Witness ==
    /\ pc = "idle"
    /\ lastCycle = "completed"
    /\ Len(cyclePosted) = 4
    /\ cyclePosted[1] = post_id(ItemA)
    /\ cyclePosted[4] = post_id(ItemF)

\* the identity C17 describes: the guid when the feed supplied one, else the link
guid_else_link(item) == IF item.guid # PyNone THEN item.guid ELSE item.link

\* C17: every entry of a fetched list is recorded under its guid, or under its link
\* when it has no guid, and the entries counted as new are those whose such identity
\* was not in the seen-set.
C17_GuidElseLink ==
    InPass =>
        /\ \A k \in 1..Len(items) : guid_else_link(items[k]) \in DOMAIN processed_posts.posts
        /\ found = Cardinality({guid_else_link(items[k]) : k \in 1..Len(items)} \ seenBefore)

\* C18: an identity skipped without posting (judged invalid, flagged, or cut off by
\* the cap) stays in posts for the rest of the run, is not published, and no entry
\* with that identity goes through the pipeline again.
C18_SkippedStaySeen ==
    [][/\ pc' # "boot" =>
              /\ dropped' \subseteq DOMAIN processed_posts'.posts
              /\ dropped' \cap publishedNow' = {}
       /\ (pc = "entry" /\ pc' # "boot") => post_id(new_posts[j]) \notin dropped]_vars

\* a later pass over the feed whose entries were skipped: one was cut off by the cap,
\* another was skipped in the pipeline, the feed returns both again and none is new
C18_Witness ==
    /\ pc = "mark"
    /\ found = 0
    /\ post_id(ItemD) \in dropped
    /\ Cardinality(dropped) >= 2
    /\ dropped \subseteq seenBefore \cap ItemIds(items)

\* C19: a pass takes the first-run branch iff the seen-set was empty just before its
\* novelty filter; the cap is 3 in that branch and max_posts_per_feed in the other.
C19_BootstrapIffEmpty ==
    InPass =>
        /\ firstRun <=> seenBefore = {}
        /\ Len(new_posts) =
               Min(found, IF seenBefore = {} THEN FirstRunLimit ELSE max_posts_per_feed)

\* a pass on a store that holds one identity: 3 entries are new, which is as many as
\* the store held plus two, and max_posts_per_feed of them are kept
C19_Witness ==
    /\ InPass
    /\ Cardinality(seenBefore) = 1
    /\ ~firstRun
    /\ found = 3
    /\ Len(new_posts) = max_posts_per_feed

\* C20: after startup the store has posts and last_check_times, and no cycle is
\* aborted.
C20_BothComponents ==
    pc # "boot" =>
        /\ {"posts", "last_check_times"} \subseteq DOMAIN processed_posts
        /\ lastCycle # "aborted"

====
